---- MODULE Spec2Model ----
(***************************************************************************)
(* A model of .github/tools/auto_evaluator.py: the rubric merge            *)
(* (deep_merge and main's fold over the rubric chain), the repository      *)
(* scanner (run_scanner) and the scoring orchestrator (evaluate and main's *)
(* use of its result).                                                     *)
(*                                                                         *)
(* YAML/JSON values are tagged trees: [t |-> tag, v |-> payload] with tag  *)
(* "dict" (payload: a function from key strings to values), "list"         *)
(* (payload: a sequence of values), "int", "str" and "null".               *)
(***************************************************************************)
EXTENDS Integers, Sequences, FiniteSets, TLC

VARIABLES
    pc,        \* main's position in the configuration phase
    merged,    \* main's merged
    docs,      \* the layer documents loaded so far, in chain order (most specific first)
    todo,      \* chain entries not yet visited by main's loop
    layers,    \* [g, s, m]: three layer documents handed to deep_merge directly
    apc,       \* position in the two ways of merging them
    partial,   \* the inner deep_merge of the way being computed
    nested,    \* deep_merge(g, deep_merge(s, m))
    manual,    \* deep_merge(deep_merge(g, s), m)
    tree,      \* the file tree run_scanner works on: path -> entry
    rules,     \* struct["pick_rules"]
    max_total, \* struct["max_context_bytes"]
    spc,       \* run_scanner's position
    ri,        \* index of the pick rule being applied
    matches,   \* matches[:takes] still to be handed to add_file
    picked,    \* run_scanner's picked
    used,      \* run_scanner's used
    meta,      \* the scan result written to scanner_meta.json
    run,       \* which run over the tree this is (1 or 2)
    firstMeta, \* the scan result of the first run
    stype,     \* scoring["type"]
    ensemble,  \* scoring["ensemble_size"]
    epc,       \* position in evaluate and in main's steps 6 and 7
    calls,     \* the oracle calls issued so far, in order
    logic,     \* evaluate's logic: the summary of the first call of strategy B
    runs,      \* evaluate's runs
    result,    \* what evaluate returned: main's data
    row        \* the row of results.csv and the lines of the report

mergeVars == <<pc, merged, docs, todo>>
assocVars == <<layers, apc, partial, nested, manual>>
scanVars == <<tree, rules, max_total, spc, ri, matches, picked, used, meta, run, firstMeta>>
evalVars == <<stype, ensemble, epc, calls, logic, runs, result, row>>
vars == <<mergeVars, assocVars, scanVars, evalVars>>

(***************************************************************************)
(* Values                                                                  *)
(***************************************************************************)
Dict(f) == [t |-> "dict", v |-> f]
List(s) == [t |-> "list", v |-> s]
Num(n)  == [t |-> "int",  v |-> n]
Str(s)  == [t |-> "str",  v |-> s]
Null    == [t |-> "null", v |-> "null"]

IsDict(x) == x.t = "dict"
IsList(x) == x.t = "list"

EmptyDict == Dict([k \in {} |-> Null])

Keys(d) == DOMAIN d.v

\* b.get("__op") == "replace"
HasReplace(d) == "__op" \in Keys(d) /\ d.v["__op"] = Str("replace")

\* {k: v for k, v in b.items() if k != "__op"}
StripOp(d) == Dict([k \in Keys(d) \ {"__op"} |-> d.v[k]])

\* isinstance(x, dict) and "id" in x
IdBearing(x) == IsDict(x) /\ "id" \in Keys(x)

\* position of the entry keyed by id in an insertion-ordered index, 0 if absent
IdxPos(idx, id) ==
    IF \E i \in 1..Len(idx) : idx[i].v["id"] = id
    THEN CHOOSE i \in 1..Len(idx) : idx[i].v["id"] = id
    ELSE 0

\* idx[id] = rec on an insertion-ordered dict: overwrite in place or append
IdxPut(idx, id, rec) ==
    IF IdxPos(idx, id) = 0 THEN Append(idx, rec)
    ELSE [idx EXCEPT ![IdxPos(idx, id)] = rec]

RECURSIVE IdxOf(_)
\* idx = {x["id"]: x for x in a}
IdxOf(a) ==
    IF a = <<>> THEN <<>>
    ELSE LET front == IdxOf(SubSeq(a, 1, Len(a) - 1))
             x     == a[Len(a)]
         IN  IdxPut(front, x.v["id"], x)

RECURSIVE deep_merge(_, _)
RECURSIVE MergeInto(_, _)

\* the loop for it in b: of the id-keyed list merge, over the index idx
MergeInto(idx, b) ==
    IF b = <<>> THEN idx
    ELSE LET it == Head(b)
             id == it.v["id"]
             nx == IF HasReplace(it) THEN IdxPut(idx, id, StripOp(it))
                   ELSE IF IdxPos(idx, id) # 0
                        THEN IdxPut(idx, id, deep_merge(idx[IdxPos(idx, id)], it))
                        ELSE IdxPut(idx, id, it)
         IN  MergeInto(nx, Tail(b))

\* scalars and mismatched shapes: return a
MergeOther(a, b) == a

\* deep_merge(a, b): merges b "over" a
deep_merge(a, b) ==
    IF IsDict(a) /\ IsDict(b) THEN
        IF HasReplace(b) THEN StripOp(b)
        ELSE LET bk == Keys(b) \ {"__op"}
             IN  Dict([k \in Keys(a) \cup bk |->
                        IF k \in bk
                        THEN (IF k \in Keys(a) THEN deep_merge(a.v[k], b.v[k]) ELSE b.v[k])
                        ELSE a.v[k]])
    ELSE IF IsList(a) /\ IsList(b) THEN
        IF \A i \in 1..Len(a.v \o b.v) : IdBearing((a.v \o b.v)[i])
        THEN List(MergeInto(IdxOf(a.v), b.v))
        ELSE List(a.v \o b.v)
    ELSE MergeOther(a, b)

(***************************************************************************)
(* Layer documents (what yaml.safe_load can return for a rubric layer)     *)
(***************************************************************************)
MaxLayers == 3

CriterionIds == {"a", "b"}

OptionalFields == {"peso", "tipo", "__op"}

FieldValues(k) ==
    CASE k = "peso" -> {Num(5), Num(10)}
      [] k = "tipo" -> {Str("ia"), Str("determinista")}
      [] k = "__op" -> {Str("replace")}

\* every criterion record with the given id over the optional fields
RecordsOf(id) ==
    UNION { { Dict([k \in K \cup {"id"} |-> IF k = "id" THEN Str(id) ELSE f[k]]) :
                f \in { g \in [K -> UNION {FieldValues(k) : k \in OptionalFields}] :
                          \A k \in K : g[k] \in FieldValues(k) } } :
            K \in SUBSET OptionalFields }

\* criterion "a" ranges over every record shape; "b" is the fixed record of
\* the end-to-end scenario
CriterionPool(id) ==
    IF id = "a" THEN RecordsOf("a")
    ELSE {Dict([k \in {"id", "peso", "tipo"} |->
                  CASE k = "id" -> Str("b") [] k = "peso" -> Num(5) [] k = "tipo" -> Str("ia")])}

\* criterios sections: lists with unique ids, in id order
CriteriaLists ==
    {<<>>}
    \cup { <<r>> : r \in CriterionPool("a") \cup CriterionPool("b") }
    \cup { <<r, q>> : r \in CriterionPool("a"), q \in CriterionPool("b") }

MappingDocs ==
    {EmptyDict}
    \cup { Dict([k \in {"criterios"} |-> List(c)]) : c \in CriteriaLists }
    \cup { Dict([k \in {"criterios"} |-> Str("ver anexo")]) }

NonMappingDocs == {Null, Str("texto"), List(<<>>)}

LayerDocs == MappingDocs \cup NonMappingDocs

(***************************************************************************)
(* main, step 2: resolve and merge the chain                               *)
(***************************************************************************)
DefaultMaxContextBytes == 120000

Unset == [t |-> "unset", v |-> "unset"]

IdleMerge == pc = "idle" /\ merged = Unset /\ docs = <<>> /\ todo = 0

IdleAssoc ==
    /\ layers = [g |-> Unset, s |-> Unset, m |-> Unset]
    /\ apc = "idle"
    /\ partial = Unset
    /\ nested = Unset
    /\ manual = Unset

NoMeta == [picked_files |-> <<>>, bytes |-> -1]

IdleScan ==
    /\ tree = <<>>
    /\ rules = <<>>
    /\ max_total = 0
    /\ spc = "idle"
    /\ ri = 0
    /\ matches = <<>>
    /\ picked = <<>>
    /\ used = 0
    /\ meta = NoMeta
    /\ run = 0
    /\ firstMeta = NoMeta

NoRow == [total |-> -1, desglose |-> <<>>]

IdleEval ==
    /\ stype = "A"
    /\ ensemble = 0
    /\ epc = "idle"
    /\ calls = <<>>
    /\ logic = <<>>
    /\ runs = <<>>
    /\ result = Unset
    /\ row = NoRow

InitMerge ==
    /\ IdleAssoc
    /\ IdleScan
    /\ IdleEval
    /\ todo \in 0..MaxLayers
    /\ pc = (IF todo = 0 THEN "empty_chain" ELSE "fold")
    /\ merged = EmptyDict
    /\ docs = <<>>

\* one iteration of for raw in rubrics_chain whose file exists
MergeLayer ==
    /\ UNCHANGED <<assocVars, scanVars, evalVars>>
    /\ pc = "fold"
    /\ todo > 0
    /\ \E data \in LayerDocs :
         /\ merged' = deep_merge(data, merged)
         /\ docs' = Append(docs, data)
    /\ todo' = todo - 1
    /\ pc' = pc

\* one iteration whose file is not found: warn and continue
SkipLayer ==
    /\ UNCHANGED <<assocVars, scanVars, evalVars>>
    /\ pc = "fold"
    /\ todo > 0
    /\ todo' = todo - 1
    /\ UNCHANGED <<pc, merged, docs>>

\* after the loop: rubrica_efectiva.yaml is written
WriteEffective ==
    /\ UNCHANGED <<assocVars, scanVars, evalVars>>
    /\ pc = "fold"
    /\ todo = 0
    /\ pc' = "defaults"
    /\ UNCHANGED <<merged, docs, todo>>

\* empty chain, rubrica_efectiva.yaml present: it is loaded as is
LoadProvided ==
    /\ UNCHANGED <<assocVars, scanVars, evalVars>>
    /\ pc = "empty_chain"
    /\ \E data \in LayerDocs : merged' = data
    /\ pc' = "defaults"
    /\ UNCHANGED <<docs, todo>>

\* empty chain and no rubrica_efectiva.yaml: sys.exit(2)
NoRubric ==
    /\ UNCHANGED <<assocVars, scanVars, evalVars>>
    /\ pc = "empty_chain"
    /\ pc' = "exit2"
    /\ UNCHANGED <<merged, docs, todo>>

\* merged.setdefault("estructura", {}).setdefault("max_context_bytes", ...)
\* succeeds on a mapping whose estructura is absent or a mapping
DefaultsApply(m) ==
    /\ IsDict(m)
    /\ "estructura" \in Keys(m) => IsDict(m.v["estructura"])

WithDefaults(m) ==
    LET e0 == IF "estructura" \in Keys(m) THEN m.v["estructura"] ELSE EmptyDict
        e1 == Dict([k \in Keys(e0) \cup {"max_context_bytes"} |->
                      IF k \in Keys(e0) THEN e0.v[k] ELSE Num(DefaultMaxContextBytes)])
    IN  Dict([k \in Keys(m) \cup {"estructura"} |->
                IF k = "estructura" THEN e1 ELSE m.v[k]])

\* line 339; an AttributeError there reaches the top-level handler: exit 1
SetDefaults ==
    /\ UNCHANGED <<assocVars, scanVars, evalVars>>
    /\ pc = "defaults"
    /\ IF DefaultsApply(merged)
       THEN merged' = WithDefaults(merged) /\ pc' = "scan"
       ELSE merged' = merged /\ pc' = "fatal"
    /\ UNCHANGED <<docs, todo>>

NextMerge ==
    \/ MergeLayer
    \/ SkipLayer
    \/ WriteEffective
    \/ LoadProvided
    \/ NoRubric
    \/ SetDefaults

SpecMerge == InitMerge /\ [][NextMerge]_vars

(***************************************************************************)
(* Reading the criteria of a document                                      *)
(***************************************************************************)
\* the records of a document's criterios list (none if absent or no list)
RecsOf(d) ==
    IF IsDict(d) /\ "criterios" \in Keys(d) /\ IsList(d.v["criterios"])
    THEN d.v["criterios"].v
    ELSE <<>>

RecsWithId(d, id) == { i \in 1..Len(RecsOf(d)) : RecsOf(d)[i].v["id"] = Str(id) }

Defines(d, id, k) == \E i \in RecsWithId(d, id) : k \in Keys(RecsOf(d)[i])

ValueIn(d, id, k) ==
    LET i == CHOOSE j \in RecsWithId(d, id) : k \in Keys(RecsOf(d)[j])
    IN  RecsOf(d)[i].v[k]

\* a mapping whose criteria section is absent or a list of records without directive
PlainLayer(d) ==
    /\ IsDict(d)
    /\ "criterios" \in Keys(d) => IsList(d.v["criterios"])
    /\ \A i \in 1..Len(RecsOf(d)) : "__op" \notin Keys(RecsOf(d)[i])

\* a mapping whose criteria section is absent or a list of records
ListLayer(d) ==
    /\ IsDict(d)
    /\ "criterios" \in Keys(d) => IsList(d.v["criterios"])

\* the most specific layer of the chain that defines field k of criterion id
FirstDefining(id, k) ==
    CHOOSE i \in 1..Len(docs) :
        /\ Defines(docs[i], id, k)
        /\ \A j \in 1..(i - 1) : ~Defines(docs[j], id, k)

\* the chain has been folded and the effective configuration written
ChainMerged == pc \in {"defaults", "scan"} /\ docs # <<>>

(***************************************************************************)
(* C1: for a chain of plain mapping layers, every peso/tipo of a           *)
(* criterion in the effective configuration is the value of the most       *)
(* specific layer defining it, and every id of every layer appears once.   *)
(***************************************************************************)
C1_MostSpecificWins ==
    (ChainMerged /\ \A i \in 1..Len(docs) : PlainLayer(docs[i])) =>
        \A id \in CriterionIds :
            /\ \A k \in {"peso", "tipo"} :
                 (\E i \in 1..Len(docs) : Defines(docs[i], id, k)) =>
                    /\ Defines(merged, id, k)
                    /\ ValueIn(merged, id, k) = ValueIn(docs[FirstDefining(id, k)], id, k)
            /\ (\E i \in 1..Len(docs) : RecsWithId(docs[i], id) # {}) =>
                 Cardinality(RecsWithId(merged, id)) = 1

(***************************************************************************)
(* C2: a record carrying __op: replace, in the most specific layer that    *)
(* defines its id, is the effective criterion with the directive stripped, *)
(* and no effective criterion carries the directive key.                   *)
(***************************************************************************)
C2_ReplaceSupersedes ==
    (ChainMerged /\ \A i \in 1..Len(docs) : ListLayer(docs[i])) =>
        /\ \A i \in 1..Len(docs) : \A n \in 1..Len(RecsOf(docs[i])) :
             LET r == RecsOf(docs[i])[n]
             IN  (/\ HasReplace(r)
                  /\ \A j \in 1..(i - 1) : \A id \in CriterionIds :
                        r.v["id"] = Str(id) => RecsWithId(docs[j], id) = {}) =>
                     \E e \in 1..Len(RecsOf(merged)) : RecsOf(merged)[e] = StripOp(r)
        /\ \A e \in 1..Len(RecsOf(merged)) : "__op" \notin Keys(RecsOf(merged)[e])

(***************************************************************************)
(* C8: once a loaded layer document is not a mapping, the run never        *)
(* reaches the scanner.                                                    *)
(***************************************************************************)
C8_NonMappingAborts ==
    (\E i \in 1..Len(docs) : ~IsDict(docs[i])) => pc # "scan"

(***************************************************************************)
(* deep_merge on three layers, grouped both ways                           *)
(***************************************************************************)
InitAssoc ==
    /\ IdleMerge
    /\ IdleScan
    /\ IdleEval
    /\ layers \in [g : MappingDocs, s : MappingDocs, m : MappingDocs]
    /\ apc = "nest_inner"
    /\ partial = Unset
    /\ nested = Unset
    /\ manual = Unset

\* deep_merge(s, m)
NestInner ==
    /\ apc = "nest_inner"
    /\ partial' = deep_merge(layers.s, layers.m)
    /\ apc' = "nest_outer"
    /\ UNCHANGED <<layers, nested, manual, mergeVars, scanVars, evalVars>>

\* deep_merge(g, deep_merge(s, m))
NestOuter ==
    /\ apc = "nest_outer"
    /\ nested' = deep_merge(layers.g, partial)
    /\ partial' = Unset
    /\ apc' = "manual_first"
    /\ UNCHANGED <<layers, manual, mergeVars, scanVars, evalVars>>

\* deep_merge(g, s)
ManualFirst ==
    /\ apc = "manual_first"
    /\ partial' = deep_merge(layers.g, layers.s)
    /\ apc' = "manual_second"
    /\ UNCHANGED <<layers, nested, manual, mergeVars, scanVars, evalVars>>

\* deep_merge(deep_merge(g, s), m)
ManualSecond ==
    /\ apc = "manual_second"
    /\ manual' = deep_merge(partial, layers.m)
    /\ partial' = Unset
    /\ apc' = "done"
    /\ UNCHANGED <<layers, nested, mergeVars, scanVars, evalVars>>

NextAssoc ==
    \/ NestInner
    \/ NestOuter
    \/ ManualFirst
    \/ ManualSecond

SpecAssoc == InitAssoc /\ [][NextAssoc]_vars

\* the criteria of a document as a set of records (or its section, if no list)
CriteriaOf(d) ==
    IF "criterios" \notin Keys(d) THEN {}
    ELSE IF IsList(d.v["criterios"])
         THEN { d.v["criterios"].v[i] : i \in 1..Len(d.v["criterios"].v) }
         ELSE { d.v["criterios"] }

(***************************************************************************)
(* C9: for all mapping layers g, s, m the two groupings of deep_merge      *)
(* give the same criteria with the same field values.                      *)
(***************************************************************************)
C9_Associative ==
    apc = "done" => CriteriaOf(nested) = CriteriaOf(manual)


(***************************************************************************)
(* run_scanner                                                             *)
(*                                                                         *)
(* The validation of required_files, required_any_of and forbidden_globs   *)
(* (lines 183-192) only appends to penalizaciones; it neither reads nor  *)
(* writes picked and used and is left out.                                 *)
(***************************************************************************)
MaxFileSize == 2
MaxRules == 2

\* budgets range from nothing to more than any one file holds
MaxBudget == MaxFileSize + 1

Paths == {"a.py", "b.py", "lib"}

File(n) == [kind |-> "file", size |-> n]
Dir     == [kind |-> "dir", size |-> 0]
Absent  == [kind |-> "absent", size |-> 0]

Trees ==
    { [p \in Paths |-> IF p = "a.py" THEN File(x) ELSE IF p = "b.py" THEN File(y) ELSE d] :
        x \in 0..MaxFileSize, y \in 0..MaxFileSize, d \in {Dir, Absent} }

\* the paths of the universe a glob pattern matches by name
PatternPaths(g) ==
    CASE g = "*.py" -> {"a.py", "b.py"}
      [] g = "*"    -> Paths

\* glob.glob(g, recursive=True): the existing entries the pattern matches
Glob(g, tr) == { p \in PatternPaths(g) : tr[p].kind # "absent" }

\* the second list matches a.py and b.py twice over
GlobLists == {<<"*.py">>, <<"*.py", "*">>}

\* one slot, or as many as there are files
TakeCounts == 1..Cardinality(PatternPaths("*.py"))

PickRules == [globs : GlobLists, take : TakeCounts, max_bytes : 1..MaxFileSize]

RuleLists == UNION { [1..n -> PickRules] : n \in 1..MaxRules }

\* os.path.getsize(x) if os.path.isfile(x) else 0
SortKey(p, tr) == IF tr[p].kind = "file" THEN tr[p].size ELSE 0

\* matches, after matches += glob.glob(g) for every glob and set(): a set of paths
Matched(rule, tr) == UNION { Glob(rule.globs[i], tr) : i \in 1..Len(rule.globs) }

\* the sequences over all of S in which each path occurs once
Orders(S) ==
    { q \in [1..Cardinality(S) -> S] : \A i, j \in 1..Cardinality(S) : q[i] = q[j] => i = j }

\* sorted(set(matches), key=..., reverse=True): the sort is stable, so paths of
\* equal key stay in the iteration order of the set, which depends on the
\* process's string hash seed: any order of equal-key paths can come out
SortedMatches(S, tr) ==
    { q \in Orders(S) : \A i, j \in 1..Len(q) : i < j => SortKey(q[i], tr) >= SortKey(q[j], tr) }

Min(a, b) == IF a <= b THEN a ELSE b

\* the remaining budget left out of the minimum
TakeBytesNoBudget(size, cap, left) == Min(size, cap)

\* take = min(size, cap, max_total - used)
TakeBytes(size, cap, left) == Min(Min(size, cap), left)

\* add_file(p, cap): the new <<picked, used>>
add_file(p, cap, pk, us, tr, mx) ==
    IF us >= mx THEN <<pk, us>>
    ELSE IF tr[p].kind # "file" THEN <<pk, us>>
    ELSE LET take == TakeBytes(tr[p].size, cap, mx - us)
         IN  IF take <= 0 THEN <<pk, us>>
             ELSE <<Append(pk, <<p, take>>), us + take>>

InitScan ==
    /\ IdleMerge
    /\ IdleAssoc
    /\ IdleEval
    /\ tree \in Trees
    /\ rules \in RuleLists
    /\ max_total \in 0..MaxBudget
    /\ spc = "rule"
    /\ ri = 1
    /\ matches = <<>>
    /\ picked = <<>>
    /\ used = 0
    /\ meta = NoMeta
    /\ run = 1
    /\ firstMeta = NoMeta

\* lines 217-222 and the slice matches[:takes]
SortMatches ==
    /\ spc = "rule"
    /\ ri <= Len(rules)
    /\ \E q \in SortedMatches(Matched(rules[ri], tree), tree) :
         matches' = SubSeq(q, 1, Min(rules[ri].take, Len(q)))
    /\ spc' = "add"
    /\ UNCHANGED <<tree, rules, max_total, ri, picked, used, meta, run, firstMeta>>
    /\ UNCHANGED <<mergeVars, assocVars, evalVars>>

\* one iteration of for m in matches[:takes]: add_file(m, cap)
AddFile ==
    /\ spc = "add"
    /\ matches # <<>>
    /\ LET r == add_file(Head(matches), rules[ri].max_bytes, picked, used, tree, max_total)
       IN  picked' = r[1] /\ used' = r[2]
    /\ matches' = Tail(matches)
    /\ UNCHANGED <<tree, rules, max_total, spc, ri, meta, run, firstMeta>>
    /\ UNCHANGED <<mergeVars, assocVars, evalVars>>

\* the rule's matches are exhausted: on to the next rule
EndRule ==
    /\ spc = "add"
    /\ matches = <<>>
    /\ ri' = ri + 1
    /\ spc' = "rule"
    /\ UNCHANGED <<tree, rules, max_total, matches, picked, used, meta, run, firstMeta>>
    /\ UNCHANGED <<mergeVars, assocVars, evalVars>>

\* lines 226-238: the excerpts are copied and the scan result is written
WriteMeta ==
    /\ spc = "rule"
    /\ ri > Len(rules)
    /\ meta' = [picked_files |-> [i \in 1..Len(picked) |-> picked[i][1]], bytes |-> used]
    /\ spc' = "done"
    /\ UNCHANGED <<tree, rules, max_total, ri, matches, picked, used, run, firstMeta>>
    /\ UNCHANGED <<mergeVars, assocVars, evalVars>>

\* the script is run again, in a new process, on the same tree and rules
Rerun ==
    /\ spc = "done"
    /\ run = 1
    /\ firstMeta' = meta
    /\ run' = 2
    /\ spc' = "rule"
    /\ ri' = 1
    /\ matches' = <<>>
    /\ picked' = <<>>
    /\ used' = 0
    /\ meta' = NoMeta
    /\ UNCHANGED <<tree, rules, max_total>>
    /\ UNCHANGED <<mergeVars, assocVars, evalVars>>

NextScan ==
    \/ SortMatches
    \/ AddFile
    \/ EndRule
    \/ WriteMeta

SpecScan == InitScan /\ [][NextScan]_vars

NextRescan ==
    \/ NextScan
    \/ Rerun

SpecRescan == InitScan /\ [][NextRescan]_vars

RECURSIVE SumBytes(_)
\* the sum of the byte counts of a picked list
SumBytes(pk) == IF pk = <<>> THEN 0 ELSE pk[1][2] + SumBytes(Tail(pk))

(***************************************************************************)
(* C3: every add_file step leaves used equal to the sum of the picked byte *)
(* counts and at most max_context_bytes; it changes picked only by         *)
(* appending one entry, of at most the rule's max_bytes; every picked      *)
(* entry is at most the size of its file.                                  *)
(***************************************************************************)
C3_BudgetRespected ==
    [][ (spc = "add" /\ matches # <<>>) =>
          /\ used' = SumBytes(picked')
          /\ used' <= max_total
          /\ \A i \in 1..Len(picked') : picked'[i][2] <= tree[picked'[i][1]].size
          /\ picked' # picked =>
               /\ Len(picked') = Len(picked) + 1
               /\ SubSeq(picked', 1, Len(picked)) = picked
               /\ picked'[Len(picked')][2] <= rules[ri].max_bytes ]_vars

\* add_file has cut an entry to the budget that was left: the total has
\* reached the budget with a last entry below its file's size and its rule's cap
C3_Witness ==
    /\ spc = "add"
    /\ Len(picked) >= 2
    /\ used = max_total
    /\ picked[Len(picked)][2] < tree[picked[Len(picked)][1]].size
    /\ picked[Len(picked)][2] < rules[ri].max_bytes

(***************************************************************************)
(* C4: a second run over the same tree with the same rules ends with the   *)
(* same picked_files list and the same byte total as the first.            *)
(***************************************************************************)
C4_SameScanTwice ==
    (run = 2 /\ spc = "done") => meta = firstMeta

(***************************************************************************)
(* Oracle responses and parse_json_from_text                               *)
(*                                                                         *)
(* A response text is a sequence of tokens: a prose word, the opener of a   *)
(* fenced json block, the fence, the braces, the JSON texts [] and 7, and  *)
(* "members": the members of an object holding an Evaluation Result, with  *)
(* the value they denote.                                                  *)
(***************************************************************************)
MaxScore == 4
MaxEnsemble == 3
MaxJunkLen == 2

Tok(k) == [k |-> k, p |-> Null]
Members(d) == [k |-> "members", p |-> d]

\* json.loads: a record [ok, val]
Loaded(x) == [ok |-> TRUE, val |-> x]
NotLoaded == [ok |-> FALSE, val |-> Null]

json_loads(txt) ==
    IF txt = <<Tok("{"), Tok("}")>> THEN Loaded(EmptyDict)
    ELSE IF Len(txt) = 3 /\ txt[1] = Tok("{") /\ txt[2].k = "members" /\ txt[3] = Tok("}")
         THEN Loaded(txt[2].p)
    ELSE IF txt = <<Tok("[]")>> THEN Loaded(List(<<>>))
    ELSE IF txt = <<Tok("7")>> THEN Loaded(Num(7))
    ELSE NotLoaded

Positions(txt, ks) == { i \in 1..Len(txt) : txt[i].k \in ks }

SetMin(S) == CHOOSE x \in S : \A y \in S : x <= y
SetMax(S) == CHOOSE x \in S : \A y \in S : x >= y

\* the regular expression search for a fenced json block: the body between
\* the first opener and the first fence after it (the three backquotes that
\* begin a later opener count as a fence)
FencedBody(txt) ==
    LET opens == Positions(txt, {"fence_json"})
    IN  IF opens = {} THEN NotLoaded
        ELSE LET i      == SetMin(opens)
                 closes == { j \in Positions(txt, {"fence", "fence_json"}) : j > i }
             IN  IF closes = {} THEN NotLoaded
                 ELSE Loaded(SubSeq(txt, i + 1, SetMin(closes) - 1))

\* txt[txt.find("{") : txt.rfind("}") + 1]
BracedBody(txt) ==
    LET lb == Positions(txt, {"{"})
        rb == Positions(txt, {"}"})
    IN  IF lb # {} /\ rb # {} /\ SetMax(rb) > SetMin(lb)
        THEN Loaded(SubSeq(txt, SetMin(lb), SetMax(rb)))
        ELSE NotLoaded

\* parse_json_from_text: the value, or NotLoaded for the ValueError
parse_json_from_text(txt) ==
    IF json_loads(txt).ok THEN json_loads(txt)
    ELSE IF FencedBody(txt).ok /\ json_loads(FencedBody(txt).val).ok
         THEN json_loads(FencedBody(txt).val)
    ELSE IF BracedBody(txt).ok /\ json_loads(BracedBody(txt).val).ok
         THEN json_loads(BracedBody(txt).val)
    ELSE NotLoaded

\* Evaluation Results the oracle may send
\* c1 with every score of 5, and once of 10; c2 alone and beside c1
C1Entries ==
    [id : {"c1"}, score : 0..MaxScore, max : {5}]
    \cup {[id |-> "c1", score |-> MaxScore, max |-> 10]}

C2Entry == [id |-> "c2", score |-> 1, max |-> 5]

EntryLists ==
    {<<>>, <<C2Entry>>, <<[id |-> "c1", score |-> 2, max |-> 5], C2Entry>>}
    \cup { <<e>> : e \in C1Entries }

Payloads ==
    { Dict([k \in {"criterios"} |-> List(c)]) : c \in EntryLists }
    \cup { Dict([k \in {"criterios", "total"} |->
                   IF k = "total" THEN Num(0) ELSE List(<<C2Entry>>)]) }
    \cup { Dict([k \in {"total"} |-> Num(1)]) }

\* the ways a response carries an Evaluation Result: as the whole text, in a
\* fenced block between prose, and in braces within prose
Forms(d) ==
    { <<Tok("{"), Members(d), Tok("}")>>,
      <<Tok("w"), Tok("fence_json"), Tok("{"), Members(d), Tok("}"), Tok("fence"), Tok("w")>>,
      <<Tok("w"), Tok("{"), Members(d), Tok("}"), Tok("w")>> }

JunkTokens == { Tok(k) : k \in {"w", "fence_json", "fence", "{", "}", "[]", "7"} }

\* every other text up to MaxJunkLen tokens, the empty content included
JunkTexts == UNION { [1..n -> JunkTokens] : n \in 0..MaxJunkLen }

Texts == JunkTexts \cup UNION { Forms(d) : d \in Payloads }

\* openai_chat: it raises, or returns the content
ChatError == [err |-> TRUE, text |-> <<>>]
ChatOutcomes == {ChatError} \cup { [err |-> FALSE, text |-> x] : x \in Texts }

\* the free-text summaries of the first call of strategy B
SummaryOutcomes == {ChatError} \cup { [err |-> FALSE, text |-> x] : x \in {<<>>, <<Tok("w")>>} }

\* one_call: openai_chat, then parse_json_from_text; NotLoaded if either raises
one_call(out) == IF out.err THEN NotLoaded ELSE parse_json_from_text(out.text)

\* what one_call can come to, over every outcome of openai_chat
CallResults == { one_call(out) : out \in ChatOutcomes }

(***************************************************************************)
(* evaluate, strategy C: the consensus                                     *)
(***************************************************************************)
\* r.get("criterios", [])
CriteriosOf(r) == IF "criterios" \in Keys(r) THEN r.v["criterios"].v ELSE <<>>

RECURSIVE Flatten(_)
\* the entries in the order of for r in runs: for c in r.get("criterios", [])
Flatten(rs) == IF rs = <<>> THEN <<>> ELSE CriteriosOf(Head(rs)) \o Flatten(Tail(rs))

RECURSIVE IdOrder(_)
\* the keys of by_id, in insertion order
IdOrder(es) ==
    IF es = <<>> THEN <<>>
    ELSE LET front == IdOrder(SubSeq(es, 1, Len(es) - 1))
             id    == es[Len(es)].id
         IN  IF \E i \in 1..Len(front) : front[i] = id THEN front ELSE Append(front, id)

RECURSIVE ScoresOf(_, _)
\* by_id[id]
ScoresOf(es, id) ==
    IF es = <<>> THEN <<>>
    ELSE (IF Head(es).id = id THEN <<Head(es).score>> ELSE <<>>) \o ScoresOf(Tail(es), id)

\* max_by_id[id]: the last assignment wins
MaxById(es, id) == es[SetMax({ i \in 1..Len(es) : es[i].id = id })].max

RECURSIVE Sum(_)
Sum(v) == IF v = <<>> THEN 0 ELSE Head(v) + Sum(Tail(v))

\* round(num / den) for den > 0: Python rounds a half to the even neighbour
PyRound(num, den) ==
    LET q == num \div den
        r == num % den
    IN  IF 2 * r < den THEN q
        ELSE IF 2 * r > den THEN q + 1
        ELSE IF q % 2 = 0 THEN q ELSE q + 1

\* int() of the quotient without round()
ConsensusScoreTruncated(v) == Sum(v) \div Len(v)

\* the score of the first run instead of the mean
ConsensusScoreFirst(v) == v[1]

\* int(round(sum(v) / len(v)))
ConsensusScore(v) == PyRound(Sum(v), Len(v))

\* the criterios list of the consensus
ConsensusEntries(rs) ==
    LET es  == Flatten(rs)
        ids == IdOrder(es)
    IN  [i \in 1..Len(ids) |->
           [id |-> ids[i], score |-> ConsensusScore(ScoresOf(es, ids[i])),
            max |-> MaxById(es, ids[i]), feedback |-> <<>>]]

\* {"criterios": criterios, "total": total}
Consensus(rs) ==
    LET cs == ConsensusEntries(rs)
    IN  Dict([k \in {"criterios", "total"} |->
                IF k = "total" THEN Num(Sum([i \in 1..Len(cs) |-> cs[i].score]))
                ELSE List(cs)])

\* r.get raises AttributeError on a run that is not a mapping
ConsensusRaises(rs) == \E i \in 1..Len(rs) : ~IsDict(rs[i])

\* range(ensemble - 1): one call short
EnsembleDoneEarly(n, e) == n + 1 >= e

\* for i in range(ensemble) has run n times and is over
EnsembleDone(n, e) == n >= e

(***************************************************************************)
(* evaluate and main's steps 6 and 7                                       *)
(***************************************************************************)
Strategies == {"A", "B", "C", "D", "Z"}

Call(prompt, sent, reply, ok) == [prompt |-> prompt, sent |-> sent, reply |-> reply, ok |-> ok]

InitEval ==
    /\ IdleMerge
    /\ IdleAssoc
    /\ IdleScan
    /\ stype \in Strategies
    /\ ensemble \in 0..MaxEnsemble
    /\ epc = "evaluate"
    /\ calls = <<>>
    /\ logic = <<>>
    /\ runs = <<>>
    /\ result = Unset
    /\ row = NoRow

\* a strategy of one one_call with the given prompt: return its data, or raise
Scored(prompt, sent) ==
    \E d \in CallResults :
        /\ calls' = Append(calls, Call(prompt, sent, <<>>, d.ok))
        /\ IF d.ok THEN result' = d.val /\ epc' = "returned"
                   ELSE result' = result /\ epc' = "fatal"

\* strategy A
SinglePass ==
    /\ epc = "evaluate"
    /\ stype = "A"
    /\ Scored("ONE_STEP_PROMPT", <<>>)
    /\ UNCHANGED <<stype, ensemble, logic, runs, row>>
    /\ UNCHANGED <<mergeVars, assocVars, scanVars>>

\* strategy B, first call: the free-text summary, not parsed
Summarize ==
    /\ epc = "evaluate"
    /\ stype = "B"
    /\ \E out \in SummaryOutcomes :
         /\ calls' = Append(calls, Call("TWO_STEP_1", <<>>, out.text, ~out.err))
         /\ IF out.err THEN logic' = logic /\ epc' = "fatal"
                       ELSE logic' = out.text /\ epc' = "two_step_2"
    /\ UNCHANGED <<stype, ensemble, runs, result, row>>
    /\ UNCHANGED <<mergeVars, assocVars, scanVars>>

\* strategy B, second call: the prompt carries logic
ScoreSummary ==
    /\ epc = "two_step_2"
    /\ Scored("TWO_STEP_2", logic)
    /\ UNCHANGED <<stype, ensemble, logic, runs, row>>
    /\ UNCHANGED <<mergeVars, assocVars, scanVars>>

\* strategy C, one iteration of the ensemble loop
EnsembleCall ==
    /\ epc = "evaluate"
    /\ stype = "C"
    /\ ~EnsembleDone(Len(runs), ensemble)
    /\ \E d \in CallResults :
         /\ calls' = Append(calls, Call("ONE_STEP_PROMPT", <<>>, <<>>, d.ok))
         /\ IF d.ok THEN runs' = Append(runs, d.val) /\ epc' = epc
                    ELSE runs' = runs /\ epc' = "fatal"
    /\ UNCHANGED <<stype, ensemble, logic, result, row>>
    /\ UNCHANGED <<mergeVars, assocVars, scanVars>>

\* strategy C, after the loop: lines 268-277
ConsensusStep ==
    /\ epc = "evaluate"
    /\ stype = "C"
    /\ EnsembleDone(Len(runs), ensemble)
    /\ IF ConsensusRaises(runs)
       THEN result' = result /\ epc' = "fatal"
       ELSE result' = Consensus(runs) /\ epc' = "returned"
    /\ UNCHANGED <<stype, ensemble, calls, logic, runs, row>>
    /\ UNCHANGED <<mergeVars, assocVars, scanVars>>

\* strategy D
AllInOne ==
    /\ epc = "evaluate"
    /\ stype = "D"
    /\ Scored("AIO_PROMPT", <<>>)
    /\ UNCHANGED <<stype, ensemble, logic, runs, row>>
    /\ UNCHANGED <<mergeVars, assocVars, scanVars>>

\* any other tag: fallback -> A
Fallback ==
    /\ epc = "evaluate"
    /\ stype \notin {"A", "B", "C", "D"}
    /\ Scored("ONE_STEP_PROMPT", <<>>)
    /\ UNCHANGED <<stype, ensemble, logic, runs, row>>
    /\ UNCHANGED <<mergeVars, assocVars, scanVars>>

\* data.get("total", sum(int(c.get("score", 0)) for c in criterios_out))
TotalOf(data) ==
    IF "total" \in Keys(data) THEN data.v["total"].v
    ELSE Sum([i \in 1..Len(CriteriosOf(data)) |-> CriteriosOf(data)[i].score])

\* main, step 7: results.csv and ISSUE_BODY.md; data.get raises on a
\* value that is not a mapping, which ends the run in the top-level handler
WriteResults ==
    /\ epc = "returned"
    /\ IF IsDict(result)
       THEN /\ row' = [total |-> TotalOf(result),
                       desglose |-> [i \in 1..Len(CriteriosOf(result)) |->
                                       <<CriteriosOf(result)[i].id,
                                         CriteriosOf(result)[i].score,
                                         CriteriosOf(result)[i].max>>]]
            /\ epc' = "done"
       ELSE row' = row /\ epc' = "fatal"
    /\ UNCHANGED <<stype, ensemble, calls, logic, runs, result>>
    /\ UNCHANGED <<mergeVars, assocVars, scanVars>>

NextEval ==
    \/ SinglePass
    \/ Summarize
    \/ ScoreSummary
    \/ EnsembleCall
    \/ ConsensusStep
    \/ AllInOne
    \/ Fallback
    \/ WriteResults

SpecEval == InitEval /\ [][NextEval]_vars

(***************************************************************************)
(* Reading runs and results                                                *)
(***************************************************************************)
ResultIds == {"c1", "c2"}

\* the positions of the entries of a result that carry the id
EntriesWith(d, id) == { j \in 1..Len(CriteriosOf(d)) : CriteriosOf(d)[j].id = id }

\* the runs that returned the id
RunsWith(rs, id) == { i \in 1..Len(rs) : EntriesWith(rs[i], id) # {} }

\* the entry of a result for an id it carries
EntryOf(d, id) == CriteriosOf(d)[CHOOSE j \in EntriesWith(d, id) : TRUE]

\* the sum of the scores the runs returned for the id
ReturnedSum(rs, id) ==
    Sum([i \in 1..Len(rs) |-> IF i \in RunsWith(rs, id) THEN EntryOf(rs[i], id).score ELSE 0])

\* evaluate has handed the consensus back to main
ConsensusReturned == stype = "C" /\ epc = "returned"

Permute(rs, q) == [i \in 1..Len(rs) |-> rs[q[i]]]

Reorderings(rs) == { Permute(rs, q) : q \in Orders(1..Len(rs)) }

ScoreMap(d) == { <<CriteriosOf(d)[j].id, CriteriosOf(d)[j].score>> : j \in 1..Len(CriteriosOf(d)) }

MaxMap(d) == { <<CriteriosOf(d)[j].id, CriteriosOf(d)[j].max>> : j \in 1..Len(CriteriosOf(d)) }

\* the max the last run of rs that returned the id gave for it
LastReturnedMax(rs, id) == EntryOf(rs[SetMax(RunsWith(rs, id))], id).max

ExpectedCalls ==
    CASE stype = "B" -> 2
      [] stype = "C" -> ensemble
      [] OTHER -> 1

====
